---- MODULE Spec2Model ----
(***************************************************************************)
(* Model of the stress-test driver of waleko/ai-stress-tester:             *)
(*   src/stress.py  stress_test / run_stress                               *)
(*   src/utils.py   get_codeforces_statement / compile / invoke            *)
(* Texts (stdin, stdout, stderr of the child processes) are sequences of   *)
(* one-character strings; the values run_stress returns are strings.       *)
(***************************************************************************)
EXTENDS Integers, Sequences, FiniteSets, TLC

\* ------------------------------------------------------------------ bounds
MaxIters == 3       \* iters is drawn from 1..MaxIters
TextLen  == 1       \* longest text a child process of the full run writes
CmpLen   == 3       \* longest output text of the comparison specification
InvLen   == 1       \* longest text of the invoke specification

\* ------------------------------------------------------------- the alphabet
Whitespace == {" ", "\n"}
Chars      == {"a"} \cup Whitespace
StrOver(A, n) == UNION {[1..k -> A] : k \in 0..n}
Str(n)     == StrOver(Chars, n)
TrialChars == {"a", " "}    \* the characters written during a full run
Texts      == StrOver(TrialChars, TextLen)
ExitCodes  == {0, 1, -11}   \* success, failure, killed by a signal
TrialCodes == {0, 1}

\* ------------------------------------------------------------ str.strip()
RECURSIVE lstrip(_)
lstrip(s) == IF s # <<>> /\ Head(s) \in Whitespace THEN lstrip(Tail(s)) ELSE s

RECURSIVE rstrip(_)
rstrip(s) == IF s # <<>> /\ s[Len(s)] \in Whitespace
             THEN rstrip(SubSeq(s, 1, Len(s) - 1)) ELSE s

strip_lonly(s) == lstrip(s)
strip(s) == rstrip(lstrip(s))

\* ---------------------------------------------------------------exceptions
NoExc == [type |-> "None", msg |-> "", code |-> 0]
SystemExit(c) == [type |-> "SystemExit", msg |-> ToString(c), code |-> c]
ValueError(m) == [type |-> "ValueError", msg |-> m, code |-> 0]
FileNotFoundError(path) ==
    [type |-> "FileNotFoundError",
     msg  |-> "[Errno 2] No such file or directory: '" \o path \o "'",
     code |-> 0]

\* The classes `except Exception` catches: SystemExit derives from
\* BaseException only.
CatchAll(e) == TRUE
CatchNoOSError(e) == e.type \in {"ValueError", "CalledProcessError"}
ExceptException(e) ==
    e.type \in {"ValueError", "FileNotFoundError", "CalledProcessError"}

\* Exit status of the interpreter when e is never caught.
UncaughtStatus(e) == IF e.type = "SystemExit" THEN e.code ELSE 1

\* ------------------------------------------------------------------- paths
fast_path == "./fast"
slow_path == "./slow"
gen_path  == "./gen"

\* ------------------------------------------------------------ utils.compile
\* rc is the return code of the compiler command that writes output_file. The
\* value is what compile prints and the exception it leaves its caller with
\* (NoExc: it returns).
CalledProcessError(output_file, rc) ==
    [type |-> "CalledProcessError",
     msg  |-> "Command '{compile_command} {source_file} -o " \o output_file
              \o "' returned non-zero exit status " \o ToString(rc) \o ".",
     code |-> rc]

CompileFailedLine(output_file, rc) ==
    [label |-> "Failed to compile the source file. Error: "
               \o CalledProcessError(output_file, rc).msg,
     text  |-> <<>>]

compile(output_file, rc) ==
    IF rc = 0
    THEN [exc |-> NoExc, lines |-> <<>>]
    ELSE [exc |-> SystemExit(1),
          lines |-> <<CompileFailedLine(output_file, rc)>>]

\* ------------------------------------------------------------- utils.invoke
\* A child process: whether it can be started, and what it writes and
\* returns once it ran.
ProcsOver(T, C) == [starts: BOOLEAN, stdout: T, stderr: T, returncode: C]

\* temp_input.write(input_text); temp_input.seek(0): what the child reads.
TempFileNoSeek(input_text) == [content |-> input_text, pos |-> Len(input_text)]
TempFile(input_text) == [content |-> input_text, pos |-> 0]
StdinOf(f) == SubSeq(f.content, f.pos + 1, Len(f.content))

invoke_stdout(path, p, input_text) ==
    LET stdin == StdinOf(TempFile(input_text)) IN
    IF ~p.starts
    THEN [exc |-> FileNotFoundError(path), out |-> <<>>, code |-> 0,
          stdin |-> stdin]
    ELSE [exc |-> NoExc, out |-> p.stdout, code |-> p.returncode,
          stdin |-> stdin]

invoke(path, p, input_text) ==
    LET stdin == StdinOf(TempFile(input_text)) IN
    IF ~p.starts
    THEN [exc |-> FileNotFoundError(path), out |-> <<>>, code |-> 0,
          stdin |-> stdin]
    ELSE IF p.returncode = 0
    THEN [exc |-> NoExc, out |-> p.stdout, code |-> p.returncode,
          stdin |-> stdin]
    ELSE [exc |-> NoExc, out |-> p.stderr, code |-> p.returncode,
          stdin |-> stdin]

\* ---------------------------------------------------------------- state
VARIABLES
    pc,           \* position of the interpreter
    iters,        \* stress_test's iters parameter
    i,            \* items the for loop has taken from range(iters)
    gen_output,   \* run_stress locals
    slow_output,
    fast_output,
    result,       \* value run_stress returned to the agent
    printed,      \* lines printed by the current call
    exitStatus,   \* exit status of the interpreter, -1 while it runs
    calls,        \* history: the invocations of the current iteration
    genCalls,     \* history: invocations of each executable in this run
    slowCalls,
    fastCalls,
    diffIter,     \* history: iteration whose stripped outputs differed, or 0
    inv           \* one invoke call: its arguments and its return value

vars == <<pc, iters, i, gen_output, slow_output, fast_output, result, printed,
          exitStatus, calls, genCalls, slowCalls, fastCalls, diffIter, inv>>

locals  == <<gen_output, slow_output, fast_output>>
counts  == <<genCalls, slowCalls, fastCalls>>

NoResult == "None"
PASSED   == "All outputs match. Stress test passed."
FAILED   == "Outputs do not match. Stress test failed."
ErrorResult(e) == "Error: " \o e.msg

Running  == -1
NoRet    == [exc |-> NoExc, out |-> <<>>, code |-> 0, stdin |-> <<>>]
NoInv    == [path |-> "", p |-> [starts |-> FALSE, stdout |-> <<>>,
                                 stderr |-> <<>>, returncode |-> 0],
             input_text |-> <<>>, ret |-> NoRet]

Procs == ProcsOver(Texts, TrialCodes)

Call(path, r) == [exe |-> path, stdin |-> r.stdin, out |-> r.out,
                  code |-> r.code, raised |-> r.exc # NoExc]

Init ==
    /\ pc = "fetch"
    /\ iters \in 1..MaxIters
    /\ i = 0
    /\ gen_output = <<>> /\ slow_output = <<>> /\ fast_output = <<>>
    /\ result = NoResult
    /\ printed = <<>>
    /\ exitStatus = Running
    /\ calls = <<>>
    /\ genCalls = 0 /\ slowCalls = 0 /\ fastCalls = 0
    /\ diffIter = 0
    /\ inv = NoInv

\* An exception e raised outside any try block of this repository: the
\* interpreter terminates.
Propagate(e) ==
    /\ pc' = "exited"
    /\ exitStatus' = UncaughtStatus(e)

\* An exception e raised inside run_stress's try block (stress.py 71-92).
RaiseInTry(e) ==
    IF ExceptException(e)
    THEN /\ pc' = "agent"
         /\ result' = ErrorResult(e)
         /\ exitStatus' = exitStatus
    ELSE /\ Propagate(e)
         /\ result' = result

\* stress.py 53: utils.get_codeforces_statement(codeforces_url)
FetchStatement ==
    /\ pc = "fetch"
    /\ \E ok \in BOOLEAN :
         IF ok THEN pc' = "compile_fast" /\ exitStatus' = exitStatus
         ELSE Propagate(ValueError("Problem statement not found."))
    /\ UNCHANGED <<iters, i, locals, result, printed, calls, counts,
                   diffIter, inv>>

\* stress.py 56: utils.compile(compiler_command, input_src, fast_path)
CompileFast ==
    /\ pc = "compile_fast"
    /\ \E rc \in TrialCodes :
         LET c == compile(fast_path, rc) IN
         /\ printed' = printed \o c.lines
         /\ IF c.exc = NoExc THEN pc' = "agent" /\ exitStatus' = exitStatus
            ELSE Propagate(c.exc)
    /\ UNCHANGED <<iters, i, locals, result, calls, counts, diffIter, inv>>

\* stress.py 102: the agent executor calls the run_stress tool.
AgentCallsRunStress ==
    /\ pc = "agent"
    /\ pc' = "compile_slow"
    /\ i' = 0
    /\ gen_output' = <<>> /\ slow_output' = <<>> /\ fast_output' = <<>>
    /\ result' = NoResult
    /\ printed' = <<>>
    /\ calls' = <<>>
    /\ genCalls' = 0 /\ slowCalls' = 0 /\ fastCalls' = 0
    /\ diffIter' = 0
    /\ UNCHANGED <<iters, exitStatus, inv>>

\* stress.py 102-103: the agent delivers its answer and main returns.
AgentAnswers ==
    /\ pc = "agent"
    /\ pc' = "finished"
    /\ exitStatus' = 0
    /\ UNCHANGED <<iters, i, locals, result, printed, calls, counts,
                   diffIter, inv>>

\* A compile call inside run_stress's try block.
CompileInTry(output_file, next) ==
    \E rc \in TrialCodes :
        LET c == compile(output_file, rc) IN
        /\ printed' = printed \o c.lines
        /\ IF c.exc = NoExc
           THEN pc' = next /\ result' = result /\ exitStatus' = exitStatus
           ELSE RaiseInTry(c.exc)

\* stress.py 72: utils.compile(compiler_command, slow_code_path, slow_path)
CompileSlow ==
    /\ pc = "compile_slow"
    /\ CompileInTry(slow_path, "compile_gen")
    /\ UNCHANGED <<iters, i, locals, calls, counts, diffIter, inv>>

\* stress.py 73: utils.compile(compiler_command, gen_code_path, gen_path)
CompileGen ==
    /\ pc = "compile_gen"
    /\ CompileInTry(gen_path, "loop")
    /\ UNCHANGED <<iters, i, locals, calls, counts, diffIter, inv>>

\* stress.py 76 and 90: the for loop takes its next item, or is exhausted.
LoopHasNextOffByOne == i <= iters
LoopHasNext == i < iters

ExhaustedResultFailed == FAILED
ExhaustedResult == PASSED

LoopNext ==
    /\ pc = "loop"
    /\ IF LoopHasNext
       THEN /\ i' = i + 1
            /\ pc' = "gen"
            /\ calls' = <<>>
            /\ result' = result
       ELSE /\ pc' = "agent"
            /\ result' = ExhaustedResult
            /\ UNCHANGED <<i, calls>>
    /\ UNCHANGED <<iters, locals, printed, exitStatus, counts, diffIter, inv>>

\* stress.py 78: gen_output, _ = utils.invoke(gen_path, '')
InvokeGen ==
    /\ pc = "gen"
    /\ \E p \in Procs :
         LET r == invoke(gen_path, p, <<>>) IN
         /\ calls' = Append(calls, Call(gen_path, r))
         /\ IF r.exc = NoExc
            THEN /\ gen_output' = r.out
                 /\ pc' = "slow"
                 /\ UNCHANGED <<result, exitStatus>>
            ELSE /\ RaiseInTry(r.exc)
                 /\ gen_output' = gen_output
    /\ genCalls' = genCalls + 1
    /\ UNCHANGED <<iters, i, slow_output, fast_output, printed, slowCalls,
                   fastCalls, diffIter, inv>>

\* stress.py 80: slow_output, _ = utils.invoke(slow_path, gen_output)
InvokeSlow ==
    /\ pc = "slow"
    /\ \E p \in Procs :
         LET r == invoke(slow_path, p, gen_output) IN
         /\ calls' = Append(calls, Call(slow_path, r))
         /\ IF r.exc = NoExc
            THEN /\ slow_output' = r.out
                 /\ pc' = "fast"
                 /\ UNCHANGED <<result, exitStatus>>
            ELSE /\ RaiseInTry(r.exc)
                 /\ slow_output' = slow_output
    /\ slowCalls' = slowCalls + 1
    /\ UNCHANGED <<iters, i, gen_output, fast_output, printed, genCalls,
                   fastCalls, diffIter, inv>>

\* stress.py 82: fast_output, _ = utils.invoke(fast_path, gen_output)
FastInputSlowOutput == slow_output
FastInput == gen_output

InvokeFast ==
    /\ pc = "fast"
    /\ \E p \in Procs :
         LET r == invoke(fast_path, p, FastInput) IN
         /\ calls' = Append(calls, Call(fast_path, r))
         /\ IF r.exc = NoExc
            THEN /\ fast_output' = r.out
                 /\ pc' = "compare"
                 /\ UNCHANGED <<result, exitStatus>>
            ELSE /\ RaiseInTry(r.exc)
                 /\ fast_output' = fast_output
    /\ fastCalls' = fastCalls + 1
    /\ UNCHANGED <<iters, i, gen_output, slow_output, printed, genCalls,
                   slowCalls, diffIter, inv>>

\* stress.py 84: slow_output.strip() != fast_output.strip()
OutputsDifferNever(s, f) == FALSE
OutputsDiffer(s, f) == strip(s) # strip(f)

\* The lines run_stress prints for a difference (stress.py 85-88).
MismatchLines ==
    << [label |-> "Test case: ",   text |-> gen_output],
       [label |-> "Slow output: ", text |-> slow_output],
       [label |-> "Fast output: ", text |-> fast_output],
       [label |-> "Outputs do not match.", text |-> <<>>] >>

CompareNoReturn ==
    /\ pc = "compare"
    /\ diffIter' = IF rstrip(lstrip(slow_output)) # rstrip(lstrip(fast_output))
                      /\ diffIter = 0
                   THEN i ELSE diffIter
    /\ printed' = IF OutputsDiffer(slow_output, fast_output)
                  THEN printed \o MismatchLines ELSE printed
    /\ pc' = "loop"
    /\ UNCHANGED <<iters, i, locals, result, exitStatus, calls, counts, inv>>

\* stress.py 84-89: compare, and on a difference print the case and return.
Compare ==
    /\ pc = "compare"
    /\ diffIter' = IF rstrip(lstrip(slow_output)) # rstrip(lstrip(fast_output))
                      /\ diffIter = 0
                   THEN i ELSE diffIter
    /\ IF OutputsDiffer(slow_output, fast_output)
       THEN /\ printed' = printed \o MismatchLines
            /\ result' = FAILED
            /\ pc' = "agent"
       ELSE /\ pc' = "loop"
            /\ UNCHANGED <<printed, result>>
    /\ UNCHANGED <<iters, i, locals, exitStatus, calls, counts, inv>>

Next ==
    \/ FetchStatement
    \/ CompileFast
    \/ AgentCallsRunStress
    \/ AgentAnswers
    \/ CompileSlow
    \/ CompileGen
    \/ LoopNext
    \/ InvokeGen
    \/ InvokeSlow
    \/ InvokeFast
    \/ Compare

Spec == Init /\ [][Next]_vars

TypeOK ==
    /\ pc \in {"fetch", "compile_fast", "agent", "compile_slow", "compile_gen",
               "loop", "gen", "slow", "fast", "compare", "finished", "exited"}
    /\ iters \in 1..MaxIters
    /\ i \in 0..iters
    /\ exitStatus \in {Running, 0, 1}

\* ------------------------------------------- the comparison, on longer texts
\* run_stress with iters = 1, stopped before line 84 of its only iteration:
\* the generator wrote "a", both programs exited with status 0.
OkCall(path, stdin, out) ==
    [exe |-> path, stdin |-> stdin, out |-> out, code |-> 0, raised |-> FALSE]

InitCompare ==
    /\ pc = "compare"
    /\ iters = 1
    /\ i = 1
    /\ gen_output = <<"a">>
    /\ slow_output \in Str(CmpLen)
    /\ fast_output \in Str(CmpLen)
    /\ result = NoResult
    /\ printed = <<>>
    /\ exitStatus = Running
    /\ calls = << OkCall(gen_path, <<>>, gen_output),
                  OkCall(slow_path, gen_output, slow_output),
                  OkCall(fast_path, gen_output, fast_output) >>
    /\ genCalls = 1 /\ slowCalls = 1 /\ fastCalls = 1
    /\ diffIter = 0
    /\ inv = NoInv

NextCompare == Compare \/ LoopNext

SpecCompare == InitCompare /\ [][NextCompare]_vars

\* --------------------------------------------------- one call of utils.invoke
InitInvoke ==
    /\ pc = "invoke"
    /\ inv \in [path: {slow_path}, p: ProcsOver(Str(InvLen), ExitCodes),
                input_text: Str(InvLen), ret: {NoRet}]
    /\ iters = 1
    /\ i = 0
    /\ gen_output = <<>> /\ slow_output = <<>> /\ fast_output = <<>>
    /\ result = NoResult
    /\ printed = <<>>
    /\ exitStatus = Running
    /\ calls = <<>>
    /\ genCalls = 0 /\ slowCalls = 0 /\ fastCalls = 0
    /\ diffIter = 0

\* utils.py 41-50
InvokeCall ==
    /\ pc = "invoke"
    /\ inv' = [inv EXCEPT !.ret = invoke(inv.path, inv.p, inv.input_text)]
    /\ pc' = "invoked"
    /\ UNCHANGED <<iters, i, locals, result, printed, exitStatus, calls,
                   counts, diffIter>>

SpecInvoke == InitInvoke /\ [][InvokeCall]_vars

\* ================================================================== claims
RunReturned == pc \in {"agent", "finished"} /\ result # NoResult
LastCallRaised == calls # <<>> /\ calls[Len(calls)].raised
IsErrorResult == result \notin {NoResult, PASSED, FAILED}

\* C1: once the stripped outputs of an iteration k differ, the run has
\* returned the mismatch result, every executable was invoked exactly k times
\* (none for an iteration after k), and the test case printed is the generator
\* output of iteration k, the text both programs read.
C1_ShortCircuit ==
    diffIter # 0 =>
        /\ RunReturned
        /\ result = FAILED
        /\ i = diffIter
        /\ genCalls = diffIter /\ slowCalls = diffIter /\ fastCalls = diffIter
        /\ Len(calls) = 3
        /\ calls[1].exe = gen_path
        /\ printed # <<>>
        /\ printed[1] = [label |-> "Test case: ", text |-> calls[1].out]
        /\ calls[2].stdin = calls[1].out
        /\ calls[3].stdin = calls[1].out

C1_Witness ==
    /\ pc = "agent" /\ result = FAILED
    /\ diffIter = 2 /\ iters = 3
    /\ genCalls = 2
    /\ printed[1].text = <<"a">>

\* C2: no run invokes an executable more than iters times, and a run that
\* returned with every trial's stripped outputs equal and no invocation
\* raising made exactly iters invocations of the generator, of the slow
\* program and of the fast program.
C2_BoundedIteration ==
    /\ genCalls <= iters /\ slowCalls <= iters /\ fastCalls <= iters
    /\ (RunReturned /\ diffIter = 0 /\ ~LastCallRaised) =>
           (genCalls = iters /\ slowCalls = iters /\ fastCalls = iters)

C2_Witness ==
    /\ pc = "agent" /\ result # NoResult /\ diffIter = 0 /\ ~LastCallRaised
    /\ iters = 3 /\ genCalls = 3 /\ slowCalls = 3 /\ fastCalls = 3

\* C3: a run that returned has the passed result exactly when all iters
\* iterations completed with equal stripped outputs; any other result is the
\* one of the first failing iteration, at which the loop stopped.
AllIterationsMatched ==
    /\ i = iters /\ fastCalls = iters
    /\ diffIter = 0
    /\ ~LastCallRaised

C3_RunResult ==
    RunReturned =>
        /\ (result = PASSED) <=> AllIterationsMatched
        /\ (result # PASSED) =>
               \/ result = FAILED /\ diffIter = i /\ i >= 1
               \/ IsErrorResult /\ LastCallRaised /\ diffIter = 0

C3_Witness ==
    /\ pc = "agent" /\ result = PASSED
    /\ iters = 2 /\ i = 2
    /\ AllIterationsMatched
    /\ slow_output # fast_output

\* C4: the comparison reports a match exactly when the two outputs are the
\* same text up to leading and trailing whitespace: one core, without outer
\* whitespace, padded on both sides by whitespace only.
IsCore(c) == c = <<>> \/ (c[1] \notin Whitespace /\ c[Len(c)] \notin Whitespace)

IsPadded(s, c) ==
    \E a \in 0..Len(s) :
        /\ a + Len(c) <= Len(s)
        /\ SubSeq(s, a + 1, a + Len(c)) = c
        /\ \A k \in 1..a : s[k] \in Whitespace
        /\ \A k \in (a + Len(c) + 1)..Len(s) : s[k] \in Whitespace

SameCore(s, f) ==
    \E n \in 0..Len(s) : \E a \in 1..(Len(s) + 1) :
        LET c == SubSeq(s, a, a + n - 1) IN
        /\ a + n - 1 <= Len(s)
        /\ IsCore(c) /\ IsPadded(s, c) /\ IsPadded(f, c)

C4_ExactComparison ==
    pc # "compare" =>
        /\ (pc = "loop" \/ result = PASSED)
               <=> SameCore(slow_output, fast_output)
        /\ (result = FAILED) <=> ~SameCore(slow_output, fast_output)

C4_Witness ==
    /\ pc = "agent" /\ result = PASSED
    /\ slow_output = <<" ", "a", "\n">>
    /\ fast_output = <<"a">>

C4_WitnessInternal ==
    /\ pc = "agent" /\ result = FAILED
    /\ slow_output = <<"a", " ", "a">>
    /\ fast_output = <<"a", "a">>

\* C5: after a trial in which the slow or the fast program exited with a
\* non-zero status, the run has ended with an execution-error result, neither
\* passed nor mismatch, and no further iteration runs.
C5_ExecutionErrorOnNonZeroExit ==
    (/\ Len(calls) = 3
     /\ ~LastCallRaised
     /\ calls[2].code # 0 \/ calls[3].code # 0
     /\ pc # "compare") =>
        /\ RunReturned
        /\ IsErrorResult

\* C6: once the generator exited with a non-zero status, the run has ended
\* with an execution-error result and neither program was invoked in that
\* iteration.
C6_GeneratorFailureStopsRun ==
    (/\ calls # <<>>
     /\ ~calls[1].raised
     /\ calls[1].code # 0) =>
        /\ Len(calls) = 1
        /\ RunReturned
        /\ IsErrorResult

\* C7: invoke hands the child exactly input_text on standard input; a child
\* that exits with status 0 gives (stdout, 0), one that exits with c # 0
\* gives (stderr, c), and neither case raises.
C7_InvokeContract ==
    (pc = "invoked" /\ inv.p.starts) =>
        /\ inv.ret.stdin = inv.input_text
        /\ inv.ret.exc = NoExc
        /\ inv.ret.code = inv.p.returncode
        /\ inv.ret.out = IF inv.p.returncode = 0 THEN inv.p.stdout
                         ELSE inv.p.stderr

C7_Witness ==
    /\ pc = "invoked" /\ inv.p.starts
    /\ inv.p.returncode = -11
    /\ inv.p.stdout = <<"a">> /\ inv.p.stderr = <<"\n">>
    /\ inv.input_text = <<"a">>
    /\ inv.ret.out = <<"\n">> /\ inv.ret.code = -11

\* C8: once a compilation failed, the interpreter has exited with a non-zero
\* status, run_stress returned nothing, and no generator or program was
\* invoked in the run whose compilation failed.
CompileFailed ==
    \E k \in 1..Len(printed) : \E f \in {fast_path, slow_path, gen_path} :
        \E rc \in TrialCodes \ {0} : printed[k] = CompileFailedLine(f, rc)

C8_FatalCompilation ==
    CompileFailed =>
        /\ pc = "exited"
        /\ exitStatus \notin {Running, 0}
        /\ result = NoResult
        /\ genCalls = 0 /\ slowCalls = 0 /\ fastCalls = 0
        /\ calls = <<>>

C8_Witness ==
    /\ pc = "exited" /\ exitStatus = 1
    /\ printed = <<CompileFailedLine(gen_path, 1)>>
    /\ result = NoResult /\ genCalls = 0

\* C9: the invocations of an iteration are, in this order, the generator,
\* the slow program and the fast program, one at a time; the generator reads
\* nothing, and both programs read the text returned by the generator call of
\* the same iteration.
IterationOrder == <<gen_path, slow_path, fast_path>>

C9_PerIterationOrdering ==
    /\ Len(calls) <= 3
    /\ \A k \in 1..Len(calls) :
           /\ calls[k].exe = IterationOrder[k]
           /\ k > 1 => (~calls[k - 1].raised /\ calls[k].stdin = calls[1].out)
    /\ calls # <<>> => calls[1].stdin = <<>>
    /\ pc = "slow" => (Len(calls) = 1 /\ gen_output = calls[1].out)
    /\ pc = "fast" => (Len(calls) = 2 /\ gen_output = calls[1].out)
    /\ pc = "compare" =>
           /\ Len(calls) = 3
           /\ slow_output = calls[2].out
           /\ fast_output = calls[3].out
    /\ genCalls >= slowCalls /\ slowCalls >= fastCalls
    /\ genCalls <= fastCalls + 1

C9_Witness ==
    /\ pc = "compare" /\ i = 2
    /\ Len(calls) = 3
    /\ calls[1].out = <<"a">> /\ calls[1].code = 1
    /\ calls[2].out = <<>>
    /\ calls[3].stdin = <<"a">>

\* C10: when an invocation cannot start its process, the run has returned
\* the error result for that exception, the interpreter has not exited, and
\* the failed invocation is the last one of the run.
C10_ProcessStartFailure ==
    LastCallRaised =>
        /\ RunReturned
        /\ exitStatus \in {Running, 0}
        /\ result = ErrorResult(FileNotFoundError(calls[Len(calls)].exe))
        /\ result \notin {PASSED, FAILED}
        /\ diffIter = 0
        /\ genCalls = i
        /\ slowCalls = IF Len(calls) >= 2 THEN i ELSE i - 1
        /\ fastCalls = IF Len(calls) >= 3 THEN i ELSE i - 1

C10_Witness ==
    /\ pc = "agent" /\ i = 2
    /\ Len(calls) = 2 /\ calls[2].raised
    /\ result = "Error: [Errno 2] No such file or directory: './slow'"
    /\ genCalls = 2 /\ slowCalls = 2 /\ fastCalls = 1

====
